---- MODULE Spec2Model ----
(***************************************************************************)
(* Model of src/src/main.mts: the Uniswap v3 pool tag service.             *)
(*                                                                         *)
(* returnTags(chainId, apiKey) resolves the subgraph URL, then loops:      *)
(* fetchData(url, lastTimestamp) -> transformPoolsToTags -> push, until a  *)
(* page whose length is not 1000 arrives.  A text is a sequence of         *)
(* one-character strings, so that template literals are concatenations and *)
(* the validator, the truncator and the conversions act on characters.     *)
(***************************************************************************)
EXTENDS Integers, Sequences, FiniteSets, TLC

(***************************************************************************)
(* Bounds of the model (not program constants).                            *)
(***************************************************************************)
\* The number of requests of one invocation a source answers.  The last
\* answer of a mocked source is not a full page, and an honest source holds no
\* more pools than so many requests read.
MaxFetches == 2

\* The longest text handed to the Validator on its own.
MaxTextLen == 4

\* The number of requests of one invocation that a source whose pages never
\* take the cursor further answers; the requests after them stay unanswered.
MaxStuckFetches == 3

\* The longest token symbol handed to the Record Transformer on its own.
MaxSymbolLen == 25

(***************************************************************************)
(* String literals of the source, as character sequences.                  *)
(***************************************************************************)
LitHttpError == <<"H","T","T","P"," ","e","r","r","o","r",":"," ">>
LitGraphQLError == <<"G","r","a","p","h","Q","L"," ","e","r","r","o","r",":"," ">>
LitGraphQLErrorsOccurred == <<"G","r","a","p","h","Q","L"," ","e","r","r","o","r","s"," ","o","c","c","u","r","r","e","d",":"," ","s","e","e"," ","l","o","g","s"," ","f","o","r"," ","d","e","t","a","i","l","s",".">>
LitNoPoolsData == <<"N","o"," ","p","o","o","l","s"," ","d","a","t","a"," ","f","o","u","n","d",".">>
LitUnsupported == <<"U","n","s","u","p","p","o","r","t","e","d"," ","o","r"," ","i","n","v","a","l","i","d"," ","C","h","a","i","n"," ","I","D"," ","p","r","o","v","i","d","e","d",":"," ">>
LitOnlyAccepted == <<"."," ","O","n","l","y"," ","t","h","e"," ","f","o","l","l","o","w","i","n","g"," ","v","a","l","u","e","s"," ","a","r","e"," ","a","c","c","e","p","t","e","d",":"," ">>
LitCommaSpace == <<","," ">>
LitEllipsis == <<".",".",".">>
LitContract == <<"C","o","n","t","r","a","c","t",":"," ">>
LitRejectedToken0 == <<" ","r","e","j","e","c","t","e","d"," ","d","u","e"," ","t","o"," ","i","n","v","a","l","i","d"," ","t","o","k","e","n"," ","s","y","m","b","o","l","/","n","a","m","e"," ","-"," ","T","o","k","e","n","0",":"," ">>
LitRejectedToken1 == <<" ","r","e","j","e","c","t","e","d"," ","d","u","e"," ","t","o"," ","i","n","v","a","l","i","d"," ","t","o","k","e","n"," ","s","y","m","b","o","l","/","n","a","m","e"," ","-"," ","T","o","k","e","n","1",":"," ">>
LitSymbol == <<","," ","S","y","m","b","o","l",":"," ">>
LitRejectedHeader == <<"R","e","j","e","c","t","e","d"," ","t","o","k","e","n"," ","n","a","m","e","s"," ","d","u","e"," ","t","o"," ","H","T","M","L","/","M","a","r","k","d","o","w","n"," ","c","o","n","t","e","n","t"," ","o","r"," ","b","e","i","n","g"," ","e","m","p","t","y",":">>
LitEip155 == <<"e","i","p","1","5","5",":">>
LitColon == <<":">>
LitSlash == <<"/">>
LitPool == <<" ","P","o","o","l">>
LitNoteHead == <<"T","h","e"," ","l","i","q","u","i","d","i","t","y"," ","p","o","o","l"," ","c","o","n","t","r","a","c","t"," ","o","n"," ","U","n","i","s","w","a","p"," ","v","3"," ","f","o","r"," ","t","h","e"," ">>
LitOpenParen == <<" ","(">>
LitCloseParenSlash == <<")"," ","/"," ">>
LitNoteTail == <<")"," ","p","a","i","r",".">>
LitAnErrorOccurred == <<"A","n"," ","e","r","r","o","r"," ","o","c","c","u","r","r","e","d",":"," ">>
LitFailedFetching == <<"F","a","i","l","e","d"," ","f","e","t","c","h","i","n","g"," ","d","a","t","a",":"," ">>
LitUnknownLog == <<"A","n"," ","u","n","k","n","o","w","n"," ","e","r","r","o","r"," ","o","c","c","u","r","r","e","d",".">>
LitUnknownThrown == <<"A","n"," ","u","n","k","n","o","w","n"," ","e","r","r","o","r"," ","o","c","c","u","r","r","e","d"," ","d","u","r","i","n","g"," ","f","e","t","c","h"," ","o","p","e","r","a","t","i","o","n",".">>
LitErrorName == <<"E","r","r","o","r">>
LitColonSpace == <<":"," ">>
LitObjectObject == <<"[","o","b","j","e","c","t"," ","O","b","j","e","c","t","]">>

(***************************************************************************)
(* Texts the callers and the data source supply in this model.             *)
(***************************************************************************)
KeyEthereum == <<"1">>
KeyOptimism == <<"1","0">>
KeyBsc == <<"5","6">>
KeyPolygon == <<"1","3","7">>
KeyBase == <<"8","4","5","3">>
KeyArbitrum == <<"4","2","1","6","1">>
KeyCelo == <<"4","2","2","2","0">>
KeyAvalanche == <<"4","3","1","1","4">>
ChainUnknown == <<"9","9","9","9","9","9">>
ChainWord == <<"a","b","c">>
ChainInherited == <<"c","o","n","s","t","r","u","c","t","o","r">>
ApiKeyPlain == <<"k","3","y">>
ApiKeyReserved == <<"a","/","b"," ","c">>
TxtUsdCoin == <<"U","S","D"," ","C","o","i","n">>
TxtUsdc == <<"U","S","D","C">>
TxtWrappedEther == <<"W","r","a","p","p","e","d"," ","E","t","h","e","r">>
TxtWeth == <<"W","E","T","H">>
TxtEmp == <<"E","M","P">>
TxtBlankName == <<"B","l","a","n","k">>
TxtBlank == <<" "," "," ">>
TxtBold == <<"B","o","l","d">>
TxtMarkup == <<"<","b",">">>
TxtLess == <<"L","e","s","s">>
TxtUnmatched == <<"a","<","b">>
TxtLong == <<"L","o","n","g">>
TxtLongSymbol == <<"L","O","N","G","L","O","N","G","L","O","N","G","L","O","N","G","L","O","N","G","L","O","N","G","L","O","N","G","L","O","N","G","L","O","N","G","L","O","N","G","L","O","N","G">>
TxtHexPrefix == <<"0","x">>
TxtTokenPrefix == <<"0","x","t">>
MsgIndexing == <<"i","n","d","e","x","i","n","g","_","e","r","r","o","r">>
MsgTimeout == <<"q","u","e","r","y"," ","t","i","m","e","d"," ","o","u","t">>
\* The cause a transport failure is reported with, and the message JSON.parse
\* gives for a body that starts with '<', in the wording of one runtime.
MsgSocket == <<"s","o","c","k","e","t"," ","h","a","n","g"," ","u","p">>
MsgBadJson == <<"U","n","e","x","p","e","c","t","e","d"," ","t","o","k","e","n"," ","<"," ","i","n"," ","J","S","O","N"," ","a","t"," ","p","o","s","i","t","i","o","n"," ","0">>
NameSyntaxError == <<"S","y","n","t","a","x","E","r","r","o","r">>
NameFetchError == <<"F","e","t","c","h","E","r","r","o","r">>

(***************************************************************************)
(* Program constants.                                                      *)
(***************************************************************************)
\* first: 1000 in GET_POOLS_QUERY and pools.length === 1000 in returnTags.
PageSize == 1000
\* const maxSymbolsLength = 45
maxSymbolsLength == 45
\* let lastTimestamp: number = 0
InitialTimestamp == 0

\* What parseInt returns for a text that does not start with a number.
NaN == "NaN"

(***************************************************************************)
(* Helpers on texts.                                                       *)
(***************************************************************************)
Digits == <<"0","1","2","3","4","5","6","7","8","9">>

\* The characters String.prototype.trim, parseInt and Number skip: WhiteSpace
\* and LineTerminator of ECMAScript.  In the first row TAB, LF, FF, CR and the
\* space; in the second VT (U+000B), NBSP (U+00A0), U+1680 and U+FEFF, written
\* as the characters themselves; in the others the code points a string of
\* this module cannot hold, each written as its JavaScript escape.
Whitespace ==
  {"\t", "\n", "\f", "\r", " ",
   "", " ", " ", "﻿",
   "\\u2000", "\\u2001", "\\u2002", "\\u2003", "\\u2004", "\\u2005",
   "\\u2006", "\\u2007", "\\u2008", "\\u2009", "\\u200A", "\\u2028",
   "\\u2029", "\\u202F", "\\u205F", "\\u3000"}

IsDigit(c) == \E d \in 1..10 : Digits[d] = c

DigitValue(c) == (CHOOSE d \in 1..10 : Digits[d] = c) - 1

\* Number.prototype.toString() of an integer.
RECURSIVE NumberToString(_)
NumberToString(n) ==
  IF n < 0 THEN <<"-">> \o NumberToString(-n)
  ELSE IF n < 10 THEN <<Digits[n + 1]>>
  ELSE NumberToString(n \div 10) \o <<Digits[(n % 10) + 1]>>

\* The value of the longest run of decimal digits of text that starts at pos.
RECURSIVE ParseDigits(_, _, _)
ParseDigits(text, pos, acc) ==
  IF pos <= Len(text) /\ IsDigit(text[pos])
  THEN ParseDigits(text, pos + 1, acc * 10 + DigitValue(text[pos]))
  ELSE acc

\* The first position from pos on that holds no whitespace (Len + 1 if none).
RECURSIVE SkipForward(_, _)
SkipForward(text, pos) ==
  IF pos <= Len(text) /\ text[pos] \in Whitespace
  THEN SkipForward(text, pos + 1)
  ELSE pos

\* The last position up to pos that holds no whitespace (0 if none).
RECURSIVE SkipBackward(_, _)
SkipBackward(text, pos) ==
  IF pos >= 1 /\ text[pos] \in Whitespace
  THEN SkipBackward(text, pos - 1)
  ELSE pos

\* String.prototype.trim()
trim(text) == SubSeq(text, SkipForward(text, 1), SkipBackward(text, Len(text)))

\* parseInt(text, 10): leading whitespace, an optional sign, then digits.
parseInt(text) ==
  LET body == SubSeq(text, SkipForward(text, 1), Len(text))
      signed == body # <<>> /\ body[1] \in {"-", "+"}
      digits == IF signed THEN Tail(body) ELSE body
  IN  IF digits = <<>> \/ ~IsDigit(digits[1]) THEN NaN
      ELSE IF signed /\ body[1] = "-" THEN 0 - ParseDigits(digits, 1, 0)
      ELSE ParseDigits(digits, 1, 0)

\* Array.prototype.join over texts.
RECURSIVE Join(_, _)
Join(texts, sep) ==
  IF texts = <<>> THEN <<>>
  ELSE IF Len(texts) = 1 THEN texts[1]
  ELSE texts[1] \o sep \o Join(Tail(texts), sep)

\* The concatenation of parts[lo..hi], each a sequence (balanced recursion).
RECURSIVE Flatten(_, _, _)
Flatten(parts, lo, hi) ==
  IF lo > hi THEN <<>>
  ELSE IF lo = hi THEN parts[lo]
  ELSE LET mid == (lo + hi) \div 2
       IN  Flatten(parts, lo, mid) \o Flatten(parts, mid + 1, hi)

(***************************************************************************)
(* Validator: containsHtmlOrMarkdown, isEmptyOrInvalid.                    *)
(***************************************************************************)
\* Mutant of containsHtmlOrMarkdown: the pattern /<[^>]+>/, which wants at
\* least one character between '<' and '>'.
containsHtmlOrMarkdownNonEmptyTag(text) ==
  \E p \in 1..Len(text) :
    /\ text[p] = "<"
    /\ \E q \in (p + 2)..Len(text) :
         /\ text[q] = ">"
         /\ \A r \in (p + 1)..(q - 1) : text[r] # ">"

\* /<[^>]*>/.test(text): a '<', then characters other than '>', then a '>'.
containsHtmlOrMarkdown(text) ==
  \E p \in 1..Len(text) :
    /\ text[p] = "<"
    /\ \E q \in (p + 1)..Len(text) :
         /\ text[q] = ">"
         /\ \A r \in (p + 1)..(q - 1) : text[r] # ">"

isEmptyOrInvalid(text) == trim(text) = <<>> \/ containsHtmlOrMarkdown(text)

(***************************************************************************)
(* Truncator.                                                              *)
(***************************************************************************)
\* Mutant of truncateString: a text of exactly maxLength characters is cut too.
truncateStringAtLimit(text, maxLength) ==
  IF Len(text) >= maxLength
  THEN SubSeq(text, 1, maxLength - 3) \o LitEllipsis
  ELSE text

truncateString(text, maxLength) ==
  IF Len(text) > maxLength
  THEN SubSeq(text, 1, maxLength - 3) \o LitEllipsis
  ELSE text

(***************************************************************************)
(* URL Resolver: SUBGRAPH_URLS, prepareUrl.                                *)
(***************************************************************************)
\* The endpoint table.  Each template is kept as the text before and the text
\* after its "[api-key]" placeholder.  The entries are listed in the order
\* Object.keys enumerates them: integer-like keys ascending.
SUBGRAPH_URLS ==
  << [key |-> KeyEthereum,
      before |-> "https://gateway-arbitrum.network.thegraph.com/api/",
      after |-> "/deployments/id/QmZeCuoZeadgHkGwLwMeguyqUKz1WPWQYKcKyMCeQqGhsF"],
     [key |-> KeyOptimism,
      before |-> "https://gateway-arbitrum.network.thegraph.com/api/",
      after |-> "/deployments/id/QmbTaWMFk4baXnoKQodnyYsFVKFNEiLsgZAe6eu2Sdj8Ef"],
     [key |-> KeyBsc,
      before |-> "https://gateway.thegraph.com/api/",
      after |-> "/subgraphs/id/F85MNzUGYqgSHSHRGgeVMNsdnW1KtZSVgFULumXRZTw2"],
     [key |-> KeyPolygon,
      before |-> "https://gateway-arbitrum.network.thegraph.com/api/",
      after |-> "/deployments/id/QmdAaDAUDCypVB85eFUkQMkS5DE1HV4s7WJb6iSiygNvAw"],
     [key |-> KeyBase,
      before |-> "https://gateway.thegraph.com/api/",
      after |-> "/subgraphs/id/43Hwfi3dJSoGpyas9VwNoDAv55yjgGrPpNSmbQZArzMG"],
     [key |-> KeyArbitrum,
      before |-> "https://gateway.thegraph.com/api/",
      after |-> "/subgraphs/id/FbCGRftH4a3yZugY7TnbYgPJVEv2LvMT6oF1fxPe9aJM"],
     [key |-> KeyCelo,
      before |-> "https://gateway-arbitrum.network.thegraph.com/api/",
      after |-> "/deployments/id/QmXfJmxY7C4A4UoWEexvei8XzcSxMegr78rt3Rzz8szkZA"],
     [key |-> KeyAvalanche,
      before |-> "https://gateway.thegraph.com/api/",
      after |-> "/subgraphs/id/GVH9h9KZ9CqheUEL93qMbq7QwgoBu32QXQDPR6bev4Eo"] >>

\* Mutant of ObjectKeys: the message lists the networks of an older table.
ObjectKeysOfOlderTable == [k \in 1..4 |-> SUBGRAPH_URLS[k].key]

\* Object.keys(SUBGRAPH_URLS)
ObjectKeys == [k \in 1..Len(SUBGRAPH_URLS) |-> SUBGRAPH_URLS[k].key]

\* The property names a plain object inherits from Object.prototype:
\* constructor, toString, toLocaleString, valueOf, hasOwnProperty,
\* isPrototypeOf, propertyIsEnumerable, __proto__, __defineGetter__,
\* __defineSetter__, __lookupGetter__ and __lookupSetter__.  Indexing the table
\* with one of them yields a value that is not undefined.
InheritedKeys ==
  {ChainInherited,
   <<"t","o","S","t","r","i","n","g">>,
   <<"t","o","L","o","c","a","l","e","S","t","r","i","n","g">>,
   <<"v","a","l","u","e","O","f">>,
   <<"h","a","s","O","w","n","P","r","o","p","e","r","t","y">>,
   <<"i","s","P","r","o","t","o","t","y","p","e","O","f">>,
   <<"p","r","o","p","e","r","t","y","I","s","E","n","u","m","e","r","a","b","l","e">>,
   <<"_","_","p","r","o","t","o","_","_">>,
   <<"_","_","d","e","f","i","n","e","G","e","t","t","e","r","_","_">>,
   <<"_","_","d","e","f","i","n","e","S","e","t","t","e","r","_","_">>,
   <<"_","_","l","o","o","k","u","p","G","e","t","t","e","r","_","_">>,
   <<"_","_","l","o","o","k","u","p","S","e","t","t","e","r","_","_">>}

\* SUBGRAPH_URLS[chainId]: "own" (an entry), "inherited" or "undefined".
LookupKind(chainId) ==
  IF \E k \in 1..Len(SUBGRAPH_URLS) : SUBGRAPH_URLS[k].key = chainId THEN "own"
  ELSE IF chainId \in InheritedKeys THEN "inherited"
  ELSE "undefined"

LookupEntry(chainId) ==
  SUBGRAPH_URLS[CHOOSE k \in 1..Len(SUBGRAPH_URLS) : SUBGRAPH_URLS[k].key = chainId]

\* Whether a text is a StringNumericLiteral, the texts Number() converts to a
\* number: blank; or, between optional whitespace, a decimal literal with an
\* optional sign ("Infinity", or digits with an optional fraction and an
\* optional exponent), or an unsigned 0x, 0o or 0b literal.
IsStringNumericLiteral(text) ==
  LET AllIn(t, set) == \A p \in 1..Len(t) : t[p] \in set
      Decimal == {Digits[d] : d \in 1..10}
      Hex == Decimal \cup {"a","b","c","d","e","f","A","B","C","D","E","F"}
      DecimalDigits(t) == t # <<>> /\ AllIn(t, Decimal)
      Unsigned(t) == IF t # <<>> /\ t[1] \in {"+", "-"} THEN Tail(t) ELSE t
      ExponentPart(t) ==
        t # <<>> /\ t[1] \in {"e", "E"} /\ DecimalDigits(Unsigned(Tail(t)))
      Mantissa(t) ==
        \/ DecimalDigits(t)
        \/ \E d \in 1..Len(t) :
             /\ t[d] = "."
             /\ AllIn(SubSeq(t, 1, d - 1), Decimal)
             /\ AllIn(SubSeq(t, d + 1, Len(t)), Decimal)
             /\ Len(t) > 1
      UnsignedDecimal(t) ==
        \/ t = <<"I","n","f","i","n","i","t","y">>
        \/ \E m \in 1..Len(t) :
             /\ Mantissa(SubSeq(t, 1, m))
             /\ m < Len(t) => ExponentPart(SubSeq(t, m + 1, Len(t)))
      NonDecimal(t) ==
        /\ Len(t) > 2
        /\ t[1] = "0"
        /\ \/ t[2] \in {"x", "X"} /\ AllIn(SubSeq(t, 3, Len(t)), Hex)
           \/ t[2] \in {"o", "O"}
                /\ AllIn(SubSeq(t, 3, Len(t)), {"0","1","2","3","4","5","6","7"})
           \/ t[2] \in {"b", "B"} /\ AllIn(SubSeq(t, 3, Len(t)), {"0", "1"})
      body == trim(text)
  IN  body = <<>> \/ UnsignedDecimal(Unsigned(body)) \/ NonDecimal(body)

\* isNaN(Number(chainId)): Number() gives NaN for every text that is not a
\* StringNumericLiteral, and a number (possibly Infinity) for the others.
isNaNNumber(chainId) == ~IsStringNumericLiteral(chainId)

\* The characters encodeURIComponent leaves as they are.
Unreserved ==
  {"A","B","C","D","E","F","G","H","I","J","K","L","M","N","O","P","Q","R","S",
   "T","U","V","W","X","Y","Z","a","b","c","d","e","f","g","h","i","j","k","l",
   "m","n","o","p","q","r","s","t","u","v","w","x","y","z","0","1","2","3","4",
   "5","6","7","8","9","-","_",".","!","~","*","'","(",")"}

\* The percent escapes of the other (ASCII) characters used in this model.
PercentEscape(c) ==
  CASE c = " " -> <<"%","2","0">>
    [] c = "/" -> <<"%","2","F">>
    [] c = ":" -> <<"%","3","A">>
    [] c = "?" -> <<"%","3","F">>
    [] c = "#" -> <<"%","2","3">>
    [] c = "&" -> <<"%","2","6">>
    [] c = "=" -> <<"%","3","D">>
    [] c = "%" -> <<"%","2","5">>
    [] c = "[" -> <<"%","5","B">>
    [] c = "]" -> <<"%","5","D">>

encodeURIComponent(text) ==
  Flatten([p \in 1..Len(text) |->
             IF text[p] \in Unreserved THEN <<text[p]>> ELSE PercentEscape(text[p])],
          1, Len(text))

\* The value used where no URL was resolved.
NoUrl == [before |-> "", key |-> <<>>, after |-> ""]

\* prepareUrl(chainId, apiKey): [threw, message, url].  The url is the
\* template with the escaped key in the place of the placeholder.
prepareUrl(chainId, apiKey) ==
  IF LookupKind(chainId) = "undefined" \/ isNaNNumber(chainId)
  THEN [threw |-> TRUE,
        message |-> LitUnsupported \o chainId \o LitOnlyAccepted
                      \o Join(ObjectKeys, LitCommaSpace),
        url |-> NoUrl]
  ELSE [threw |-> FALSE,
        message |-> <<>>,
        url |-> [before |-> LookupEntry(chainId).before,
                 key |-> encodeURIComponent(apiKey),
                 after |-> LookupEntry(chainId).after]]

(***************************************************************************)
(* Raw Pool Records the data source can hold or return.                    *)
(***************************************************************************)
\* The (name, symbol) pairs of the tokens in this model.
TokenVariants ==
  << [name |-> TxtUsdCoin, symbol |-> TxtUsdc],
     [name |-> TxtWrappedEther, symbol |-> TxtWeth],
     [name |-> <<>>, symbol |-> TxtEmp],
     [name |-> TxtBlankName, symbol |-> TxtBlank],
     [name |-> TxtBold, symbol |-> TxtMarkup],
     [name |-> TxtLess, symbol |-> TxtUnmatched],
     [name |-> TxtLong, symbol |-> TxtLongSymbol] >>

\* interface PoolToken
PoolToken(v) ==
  [id |-> TxtTokenPrefix \o <<Digits[v + 1]>>,
   name |-> TokenVariants[v].name,
   symbol |-> TokenVariants[v].symbol]

\* How a page or a source is filled: "valid" holds only acceptable tokens,
\* "mixed" runs through every pair of variants, "rejected" holds only pools
\* with an unacceptable token on one side or on both.
Fills == {"valid", "mixed", "rejected"}

Token0Variant(fill, k) ==
  CASE fill = "valid" -> 1
    [] fill = "mixed" -> ((k - 1) % 7) + 1
    [] fill = "rejected" -> 3 + ((k - 1) % 3)

Token1Variant(fill, k) ==
  CASE fill = "valid" -> 2
    [] fill = "mixed" -> (((k - 1) \div 7) % 7) + 1
    [] fill = "rejected" -> 1 + ((k - 1) % 5)

\* How creation timestamps run over the pools: "asc" gives pool k the
\* timestamp k; "halves" gives pools 1 and 2 the timestamp 1, pools 3 and 4
\* the timestamp 2, and so on; "pairs" gives pool 1 the timestamp 1, pools 2
\* and 3 the timestamp 2, and so on (pools 1000 and 1001 share one); "zero"
\* and "same" give every pool one timestamp, 0 or 7.
Stamps == {"asc", "halves", "pairs"}

StampOf(stamps, k) ==
  CASE stamps = "asc" -> k
    [] stamps = "halves" -> (k + 1) \div 2
    [] stamps = "pairs" -> (k \div 2) + 1
    [] stamps = "zero" -> 0
    [] stamps = "same" -> 7

\* interface Pool: the k-th pool of a source.
Pool(fill, stamps, k) ==
  [id |-> TxtHexPrefix \o NumberToString(k),
   createdAtTimestamp |-> StampOf(stamps, k),
   token0 |-> PoolToken(Token0Variant(fill, k)),
   token1 |-> PoolToken(Token1Variant(fill, k))]

(***************************************************************************)
(* Record Transformer: transformPoolsToTags.                               *)
(***************************************************************************)
token0Invalid(pool) ==
  isEmptyOrInvalid(pool.token0.name) \/ isEmptyOrInvalid(pool.token0.symbol)

\* Mutant of token1Invalid: only the name of token1 is validated.
token1InvalidNameOnly(pool) == isEmptyOrInvalid(pool.token1.name)

token1Invalid(pool) ==
  isEmptyOrInvalid(pool.token1.name) \/ isEmptyOrInvalid(pool.token1.symbol)

\* Mutant of RejectedLines: the second test is an else-if, so a pool gets the
\* Token1 line only when its token0 is acceptable.
RejectedLinesElseIf(pool) ==
  IF token0Invalid(pool)
  THEN << LitContract \o pool.id \o LitRejectedToken0 \o pool.token0.name
            \o LitSymbol \o pool.token0.symbol >>
  ELSE IF token1Invalid(pool)
  THEN << LitContract \o pool.id \o LitRejectedToken1 \o pool.token1.name
            \o LitSymbol \o pool.token1.symbol >>
  ELSE <<>>

\* The lines pushed to rejectedNames for one pool.
RejectedLines(pool) ==
  (IF token0Invalid(pool)
   THEN << LitContract \o pool.id \o LitRejectedToken0 \o pool.token0.name
             \o LitSymbol \o pool.token0.symbol >>
   ELSE <<>>)
  \o
  (IF token1Invalid(pool)
   THEN << LitContract \o pool.id \o LitRejectedToken1 \o pool.token1.name
             \o LitSymbol \o pool.token1.symbol >>
   ELSE <<>>)

rejectedNames(pools) ==
  Flatten([j \in 1..Len(pools) |-> RejectedLines(pools[j])], 1, Len(pools))

\* Whether the forEach pushes the pool to validPools (the else branch).
IsValidPool(pool) == ~(token0Invalid(pool) \/ token1Invalid(pool))

validPools(pools) == SelectSeq(pools, IsValidPool)

\* The ContractTag built for one valid pool.
ContractTag(chainId, pool) ==
  LET symbolsText == pool.token0.symbol \o LitSlash \o pool.token1.symbol
      truncatedSymbolsText == truncateString(symbolsText, maxSymbolsLength)
  IN  [ContractAddress |-> LitEip155 \o chainId \o LitColon \o pool.id,
       PublicNameTag |-> truncatedSymbolsText \o LitPool,
       ProjectName |-> "Uniswap v3",
       UIWebsiteLink |-> "https://uniswap.org",
       PublicNote |-> LitNoteHead \o pool.token0.name \o LitOpenParen
                        \o pool.token0.symbol \o LitCloseParenSlash
                        \o pool.token1.name \o LitOpenParen
                        \o pool.token1.symbol \o LitNoteTail]

\* One call of console.log or console.error: the text and, for console.log of
\* the rejects, the array printed after it.
LogLine(level, text, list) == [level |-> level, text |-> text, list |-> list]

\* transformPoolsToTags(chainId, pools): the tags returned (validPools.map,
\* written as one pass over pools that keeps the valid ones in their order)
\* and the lines logged.
transformPoolsToTags(chainId, pools) ==
  [tags |-> Flatten([j \in 1..Len(pools) |->
                       IF IsValidPool(pools[j])
                       THEN << ContractTag(chainId, pools[j]) >>
                       ELSE <<>>], 1, Len(pools)),
   logs |-> IF Len(rejectedNames(pools)) > 0
            THEN << LogLine("log", LitRejectedHeader, rejectedNames(pools)) >>
            ELSE <<>>]

(***************************************************************************)
(* Responses of the data source.                                           *)
(***************************************************************************)
\* A page is described by its length, its fill, its timestamps and the number
\* of its first pool; PoolsOf gives its records.
PoolsOf(page) ==
  SubSeq([j \in 1..page.len |-> Pool(page.fill, page.stamps, page.first + j - 1)],
         1, page.len)

\* One answer to one request: whether fetch() itself rejects (with an Error,
\* with an object that is no Error, with a value that is no object) or gives a
\* response ("none"), the HTTP status,
\* whether response.json() rejects and whether the library then wraps the
\* parse error in an error naming the URL (node-fetch 2) or passes it on
\* (node-fetch 3), and the parsed GraphQLResponse.
PageResponse(len, fill, stamps, first) ==
  [fetchThrows |-> "none", ok |-> TRUE, status |-> 200, jsonThrows |-> FALSE,
   jsonNamesUrl |-> FALSE,
   hasErrors |-> FALSE, errors |-> <<>>, hasData |-> TRUE, hasPools |-> TRUE,
   page |-> [len |-> len, fill |-> fill, stamps |-> stamps, first |-> first]]

NoResponse == PageResponse(0, "valid", "asc", 1)

\* The answers that make fetchData throw.
FailureResponses ==
  { [NoResponse EXCEPT !.ok = FALSE, !.status = 500],
    [NoResponse EXCEPT !.ok = FALSE, !.status = 400, !.hasErrors = TRUE,
                       !.errors = <<MsgIndexing>>, !.hasData = FALSE,
                       !.hasPools = FALSE],
    [PageResponse(3, "mixed", "asc", 1) EXCEPT
       !.hasErrors = TRUE, !.errors = <<MsgIndexing, MsgTimeout>>],
    [NoResponse EXCEPT !.hasErrors = TRUE, !.errors = <<MsgIndexing>>,
                       !.hasData = FALSE, !.hasPools = FALSE],
    [PageResponse(3, "valid", "asc", 1) EXCEPT !.hasErrors = TRUE],
    [NoResponse EXCEPT !.hasData = FALSE, !.hasPools = FALSE],
    [NoResponse EXCEPT !.hasPools = FALSE],
    [NoResponse EXCEPT !.fetchThrows = "error"],
    [NoResponse EXCEPT !.fetchThrows = "object"],
    [NoResponse EXCEPT !.fetchThrows = "nonError"],
    [NoResponse EXCEPT !.jsonThrows = TRUE],
    [NoResponse EXCEPT !.jsonThrows = TRUE, !.jsonNamesUrl = TRUE] }

\* The pages a mocked source may answer its n-th call with.
ShortPages(n) ==
  { PageResponse(0, "valid", "asc", (n - 1) * PageSize + 1),
    PageResponse(1, "valid", "asc", (n - 1) * PageSize + 1),
    PageResponse(3, "mixed", "asc", (n - 1) * PageSize + 1),
    PageResponse(PageSize - 1, "valid", "halves", (n - 1) * PageSize + 1),
    PageResponse(PageSize + 1, "mixed", "asc", (n - 1) * PageSize + 1) }

FullPages(n) ==
  { PageResponse(PageSize, "valid", "halves", (n - 1) * PageSize + 1),
    PageResponse(PageSize, "mixed", "asc", (n - 1) * PageSize + 1),
    PageResponse(PageSize, "rejected", "asc", (n - 1) * PageSize + 1) }

\* Whether a response lets the loop of returnTags go on.
IsFullPage(r) ==
  /\ r.fetchThrows = "none" /\ r.ok /\ ~r.jsonThrows
  /\ ~r.hasErrors /\ r.hasData /\ r.hasPools
  /\ r.page.len = PageSize

\* The answers a mocked source may give to its n-th call: the last call the
\* bound allows is not answered with a full page.
MockAnswers(n) ==
  FailureResponses \cup ShortPages(n)
    \cup (IF n < MaxFetches THEN FullPages(n) ELSE {})

\* The fewer answers used where two invocations run side by side: a failure
\* of each origin (the transport, the HTTP status, the body that is no JSON,
\* the error list) and pages with accepted and rejected records.
PairAnswers(n) ==
  { r \in MockAnswers(n) :
      \/ r.fetchThrows = "error"
      \/ r.jsonThrows /\ r.jsonNamesUrl
      \/ ~r.ok /\ ~r.hasErrors
      \/ r.hasErrors /\ r.hasData /\ Len(r.errors) > 0
      \/ r.fetchThrows = "none" /\ ~r.jsonThrows /\ ~r.hasErrors /\ r.hasPools
           /\ r.page.fill = "mixed" /\ r.page.len \in {3, PageSize} }

\* Mutant of HonestAnswer: the query filters with createdAtTimestamp_gte, so
\* the source also returns the pools created at lastTimestamp itself.
HonestAnswerInclusive(source, lastTimestamp) ==
  LET later == {k \in 1..source.count : StampOf(source.stamps, k) >= lastTimestamp}
      first == IF later = {} THEN source.count + 1
               ELSE CHOOSE k \in later : \A m \in later : k <= m
      len == IF Cardinality(later) > PageSize THEN PageSize ELSE Cardinality(later)
  IN  PageResponse(len, source.fill, source.stamps, first)

\* A source that honours the query: it holds source.count pools, pool k being
\* Pool(source.fill, source.stamps, k), and answers a request with the first
\* PageSize of its pools whose createdAtTimestamp is greater than the
\* request's lastTimestamp, in ascending order of createdAtTimestamp.
HonestAnswer(source, lastTimestamp) ==
  LET later == {k \in 1..source.count : StampOf(source.stamps, k) > lastTimestamp}
      first == IF later = {} THEN source.count + 1
               ELSE CHOOSE k \in later : \A m \in later : k <= m
      len == IF Cardinality(later) > PageSize THEN PageSize ELSE Cardinality(later)
  IN  PageResponse(len, source.fill, source.stamps, first)

(***************************************************************************)
(* Page Fetcher: fetchData, in its two awaits.                             *)
(***************************************************************************)
\* A thrown value, by what isError and a template literal read of it: its
\* typeof, whether it is null, whether it has a property "message" and the
\* typeof and value of that property, whether it inherits from
\* Error.prototype, and its name.
\* An Error with this name and message.
ErrorValue(name, message) ==
  [type |-> "object", null |-> FALSE, hasMessage |-> TRUE,
   messageType |-> "string", message |-> message, error |-> TRUE, name |-> name]

\* An object that is no Error and has a string property "message".
ObjectValue(message) ==
  [type |-> "object", null |-> FALSE, hasMessage |-> TRUE,
   messageType |-> "string", message |-> message, error |-> FALSE, name |-> <<>>]

\* The value undefined, which is no error by any test.
NonError ==
  [type |-> "undefined", null |-> FALSE, hasMessage |-> FALSE,
   messageType |-> "undefined", message |-> <<>>, error |-> FALSE, name |-> <<>>]

\* typeof e === "object" && e !== null && "message" in e
\*   && typeof e.message === "string"
isError(e) ==
  /\ e.type = "object"
  /\ ~e.null
  /\ e.hasMessage
  /\ e.messageType = "string"

\* `${error}`: Error.prototype.toString for an Error, Object.prototype.toString
\* for another object, the name of the type for undefined.
ErrorToString(e) ==
  IF e.error
  THEN IF e.name = <<>> THEN e.message
       ELSE IF e.message = <<>> THEN e.name
       ELSE e.name \o LitColonSpace \o e.message
  ELSE IF e.type = "object" THEN LitObjectObject
  ELSE <<"u","n","d","e","f","i","n","e","d">>

\* The text of a URL: the template with the escaped key in the place of the
\* placeholder, as the pieces whose concatenation it is.
UrlText(subgraphUrl) == <<subgraphUrl.before>> \o subgraphUrl.key \o <<subgraphUrl.after>>

\* What fetch(subgraphUrl, ...) rejects with when the transport fails: the
\* FetchError of node-fetch, "request to <url> failed, reason: <cause>".
RequestFailed(subgraphUrl) ==
  ErrorValue(NameFetchError,
             <<"r","e","q","u","e","s","t"," ","t","o"," ">> \o UrlText(subgraphUrl)
               \o <<" ","f","a","i","l","e","d",","," ","r","e","a","s","o","n",":"," ">>
               \o MsgSocket)

\* What response.json() rejects with when the body is no JSON and the library
\* wraps the parse error (node-fetch 2): the FetchError "invalid json response
\* body at <url> reason: <cause>", the URL being the one of the request.
InvalidJson(subgraphUrl) ==
  ErrorValue(NameFetchError,
             <<"i","n","v","a","l","i","d"," ","j","s","o","n"," ","r","e","s","p","o","n","s","e"," ","b","o","d","y"," ","a","t"," ">>
               \o UrlText(subgraphUrl) \o <<" ","r","e","a","s","o","n",":"," ">> \o MsgBadJson)

\* await fetch(subgraphUrl, ...) settles and response.ok is tested (lines
\* 126-137).  The code builds no message from subgraphUrl; the library does.
fetchSettled(subgraphUrl, r) ==
  IF r.fetchThrows = "error"
  THEN [threw |-> TRUE, error |-> RequestFailed(subgraphUrl)]
  ELSE IF r.fetchThrows = "object"
  THEN [threw |-> TRUE, error |-> ObjectValue(MsgSocket)]
  ELSE IF r.fetchThrows = "nonError"
  THEN [threw |-> TRUE, error |-> NonError]
  ELSE IF ~r.ok
  THEN [threw |-> TRUE,
        error |-> ErrorValue(LitErrorName, LitHttpError \o NumberToString(r.status))]
  ELSE [threw |-> FALSE, error |-> NonError]

\* Mutant of jsonSettled: the check for missing data comes before the check
\* for an error list.
jsonSettledDataFirst(subgraphUrl, r) ==
  IF r.jsonThrows
  THEN [threw |-> TRUE,
        error |-> IF r.jsonNamesUrl THEN InvalidJson(subgraphUrl)
                  ELSE ErrorValue(NameSyntaxError, MsgBadJson),
        logs |-> <<>>, pools |-> <<>>]
  ELSE IF ~r.hasData \/ ~r.hasPools
  THEN [threw |-> TRUE, error |-> ErrorValue(LitErrorName, LitNoPoolsData),
        logs |-> <<>>, pools |-> <<>>]
  ELSE IF r.hasErrors
  THEN [threw |-> TRUE,
        error |-> ErrorValue(LitErrorName, LitGraphQLErrorsOccurred),
        logs |-> [e \in 1..Len(r.errors) |->
                    LogLine("error", LitGraphQLError \o r.errors[e], <<>>)],
        pools |-> <<>>]
  ELSE [threw |-> FALSE, error |-> NonError, logs |-> <<>>,
        pools |-> PoolsOf(r.page)]

\* await response.json() of the response to the request for subgraphUrl
\* settles and the result is checked (lines 139-151).
jsonSettled(subgraphUrl, r) ==
  IF r.jsonThrows
  THEN [threw |-> TRUE,
        error |-> IF r.jsonNamesUrl THEN InvalidJson(subgraphUrl)
                  ELSE ErrorValue(NameSyntaxError, MsgBadJson),
        logs |-> <<>>, pools |-> <<>>]
  ELSE IF r.hasErrors
  THEN [threw |-> TRUE,
        error |-> ErrorValue(LitErrorName, LitGraphQLErrorsOccurred),
        logs |-> [e \in 1..Len(r.errors) |->
                    LogLine("error", LitGraphQLError \o r.errors[e], <<>>)],
        pools |-> <<>>]
  ELSE IF ~r.hasData \/ ~r.hasPools
  THEN [threw |-> TRUE, error |-> ErrorValue(LitErrorName, LitNoPoolsData),
        logs |-> <<>>, pools |-> <<>>]
  ELSE [threw |-> FALSE, error |-> NonError, logs |-> <<>>,
        pools |-> PoolsOf(r.page)]

(***************************************************************************)
(* State.                                                                  *)
(***************************************************************************)
\* The calls of returnTags the model follows.
Invocations == {1, 2}

\* The network identifiers and credentials the callers pass.
ChainIds == {KeyEthereum, KeyBase, ChainUnknown, ChainWord, ChainInherited, <<>>}

ApiKeys == {ApiKeyPlain, ApiKeyReserved}

VARIABLES
  pc,             \* per call: "idle", "awaitFetch", "awaitJson", "awaitData",
                  \*           "done", "failed"
  chainId,        \* per call: the argument chainId
  apiKey,         \* per call: the argument apiKey
  url,            \* per call: const url
  lastTimestamp,  \* per call: let lastTimestamp
  allTags,        \* per call: let allTags
  isMore,         \* per call: let isMore
  response,       \* per call: the response whose json() is awaited
  fetched,        \* per call: how the promise of fetchData has settled
  outcome,        \* per call: how the returned promise settled
  received,       \* per call: the answers it has received so far
  priorDone,      \* per call: the calls that had ended when it started
  requests,       \* every request sent to the data source, in order
  network,        \* the requests sent and not yet answered in full
  console,        \* every console.log / console.error call, in order
  script,         \* mocked source: its answer to the n-th call of a caller
  source,         \* honest or stuck source: the pools it holds
  input,          \* the argument of a helper function called on its own
  output          \* << its result >> once it has returned, << >> before

vars == << pc, chainId, apiKey, url, lastTimestamp, allTags, isMore, response,
           fetched, outcome, received, priorDone, requests, network, console,
           script, source, input, output >>

(***************************************************************************)
(* Pagination Driver: the pieces of TagService.returnTags.                 *)
(***************************************************************************)
\* The catch block: what it logs and the message of the error it throws.
catchError(error) ==
  IF isError(error)
  THEN [logs |-> << LogLine("error", LitAnErrorOccurred \o error.message, <<>>) >>,
        message |-> LitFailedFetching \o ErrorToString(error)]
  ELSE [logs |-> << LogLine("error", LitUnknownLog, <<>>) >>,
        message |-> LitUnknownThrown]

\* Mutant of MorePages: any page that is not shorter than 1000 counts as full.
MorePagesAtLeast(pools) == Len(pools) >= PageSize

\* Mutant of MorePages: an iteration guard, the loop goes on only if the page
\* takes the cursor further.
MorePagesGuarded(pools) ==
  /\ Len(pools) = PageSize
  /\ pools[Len(pools)].createdAtTimestamp > lastTimestamp[1]

\* isMore = pools.length === 1000
MorePages(pools) == Len(pools) = PageSize

\* Mutant of NextTimestamp: the cursor is read from the id of the last record,
\* and parseInt("0x...", 10) is 0.
NextTimestampOfId(pools) == parseInt(pools[Len(pools)].id)

\* Mutant of NextTimestamp: the assignment is missing, the cursor stays as it
\* is.
NextTimestampKept(pools) == lastTimestamp[1]

\* parseInt(pools[pools.length - 1].createdAtTimestamp.toString(), 10)
NextTimestamp(pools) ==
  parseInt(NumberToString(pools[Len(pools)].createdAtTimestamp))

\* Mutant of PushAll: the tags of a page are put in front of the earlier ones.
PushAllInFront(all, tags) == tags \o all

\* allTags.push(...tags)
PushAll(all, tags) == all \o tags

\* How an invocation ends: the promise resolves with tags or rejects.
Pending == [kind |-> "pending", tags |-> <<>>, message |-> <<>>]

Returned(tags) == [kind |-> "returned", tags |-> tags, message |-> <<>>]

Thrown(message) == [kind |-> "thrown", tags |-> <<>>, message |-> message]

(***************************************************************************)
(* Helpers on the state.                                                   *)
(***************************************************************************)
Terminal == {"done", "failed"}

\* The request fetchData sends: the endpoint and variables.lastTimestamp.
Request(i, subgraphUrl, ts) == [by |-> i, url |-> subgraphUrl, lastTimestamp |-> ts]

\* Console calls made by call i.
Logged(i, lines) == [l \in 1..Len(lines) |-> [by |-> i, line |-> lines[l]]]

\* Mutant of AfterAwait: the loop goes on without the request having completed.
AfterAwaitNotAwaited(net, i) == net

\* The requests still outstanding once call i's await has completed.
AfterAwait(net, i) == {m \in net : m.by # i}

\* Mutant of FreshTags: the accumulator is the one an earlier call filled.
TagsOfEarlierCall == allTags[1]

\* let allTags: ContractTag[] = []
FreshTags == <<>>

\* Mutant of TagsBinding: allTags is declared outside returnTags, one binding
\* for all calls.
TagsBindingShared(i) == 1

\* allTags is declared inside returnTags: every call has a binding of its own.
TagsBinding(i) == i

\* The cursors of the requests call i has sent, in order.
CursorsOf(i) ==
  LET mine == SelectSeq(requests, LAMBDA m : m.by = i)
  IN  [n \in 1..Len(mine) |-> mine[n].lastTimestamp]

\* No promise of fetchData has settled and waits for its awaiter.
NoFetched == [threw |-> FALSE, error |-> NonError, pools |-> <<>>]

NoSource == [count |-> 0, fill |-> "valid", stamps |-> "asc"]

\* No helper function is being called on its own.
NoInput == <<>>

NoOutput == <<>>

\* No call of returnTags has started.
Idle ==
  /\ pc = [i \in Invocations |-> "idle"]
  /\ chainId = [i \in Invocations |-> <<>>]
  /\ apiKey = [i \in Invocations |-> <<>>]
  /\ url = [i \in Invocations |-> NoUrl]
  /\ lastTimestamp = [i \in Invocations |-> InitialTimestamp]
  /\ allTags = [i \in Invocations |-> <<>>]
  /\ isMore = [i \in Invocations |-> TRUE]
  /\ response = [i \in Invocations |-> NoResponse]
  /\ fetched = [i \in Invocations |-> NoFetched]
  /\ outcome = [i \in Invocations |-> Pending]
  /\ received = [i \in Invocations |-> <<>>]
  /\ priorDone = [i \in Invocations |-> {}]
  /\ requests = <<>>
  /\ network = {}
  /\ console = <<>>
  /\ script = <<>>

InitCalls == Idle /\ input = NoInput /\ output = NoOutput

Init == InitCalls /\ source = NoSource

(***************************************************************************)
(* returnTags and fetchData, one action per stretch of code between two    *)
(* awaits.                                                                 *)
(***************************************************************************)
\* The call returnTags(c, k) up to its first await (lines 220-228, 126).
Start(i, c, k) ==
  /\ pc[i] = "idle"
  /\ chainId' = [chainId EXCEPT ![i] = c]
  /\ apiKey' = [apiKey EXCEPT ![i] = k]
  /\ priorDone' = [priorDone EXCEPT ![i] = {j \in Invocations : pc[j] \in Terminal}]
  /\ lastTimestamp' = [lastTimestamp EXCEPT ![i] = InitialTimestamp]
  /\ allTags' = [allTags EXCEPT ![TagsBinding(i)] = FreshTags]
  /\ isMore' = [isMore EXCEPT ![i] = TRUE]
  /\ LET prepared == prepareUrl(c, k)
     IN  IF prepared.threw
         THEN /\ pc' = [pc EXCEPT ![i] = "failed"]
              /\ outcome' = [outcome EXCEPT ![i] = Thrown(prepared.message)]
              /\ UNCHANGED << url, requests, network >>
         ELSE /\ pc' = [pc EXCEPT ![i] = "awaitFetch"]
              /\ url' = [url EXCEPT ![i] = prepared.url]
              /\ requests' = Append(requests, Request(i, prepared.url, InitialTimestamp))
              /\ network' = network \cup {Request(i, prepared.url, InitialTimestamp)}
              /\ UNCHANGED outcome
  /\ UNCHANGED << response, fetched, received, console, script, source, input,
                  output >>

\* Mutant of Fail: the catch block logs the error and returns what has been
\* accumulated so far instead of throwing.
FailReturningPartial(i, error) ==
  /\ pc' = [pc EXCEPT ![i] = "done"]
  /\ console' = console \o Logged(i, catchError(error).logs)
  /\ outcome' = [outcome EXCEPT ![i] = Returned(allTags[i])]
  /\ network' = {m \in network : m.by # i}

\* The catch block of the loop ends the call (lines 238-246).
Fail(i, error) ==
  LET caught == catchError(error)
  IN  /\ pc' = [pc EXCEPT ![i] = "failed"]
      /\ console' = console \o Logged(i, caught.logs)
      /\ outcome' = [outcome EXCEPT ![i] = Thrown(caught.message)]
      /\ network' = AfterAwait(network, i)

\* await fetch(...) of call i settles with answer r and fetchData runs on
\* (lines 126-139): it throws, which settles its promise, or calls
\* response.json() and awaits it.
FetchSettles(i, r) ==
  /\ pc[i] = "awaitFetch"
  /\ received' = [received EXCEPT ![i] = Append(received[i], r)]
  /\ LET settled == fetchSettled(url[i], r)
     IN  IF settled.threw
         THEN /\ pc' = [pc EXCEPT ![i] = "awaitData"]
              /\ fetched' = [fetched EXCEPT ![i] =
                               [threw |-> TRUE, error |-> settled.error,
                                pools |-> <<>>]]
              /\ UNCHANGED response
         ELSE /\ pc' = [pc EXCEPT ![i] = "awaitJson"]
              /\ response' = [response EXCEPT ![i] = r]
              /\ UNCHANGED fetched
  /\ UNCHANGED << chainId, apiKey, url, lastTimestamp, allTags, isMore, outcome,
                  priorDone, requests, network, console, source, input, output >>

\* await response.json() of call i settles and fetchData runs to its end
\* (lines 139-151): it logs the GraphQL errors, and throws or returns the
\* pools, which settles its promise.
JsonSettles(i) ==
  /\ pc[i] = "awaitJson"
  /\ \E settled \in {jsonSettled(url[i], response[i])} :
       /\ console' = console \o Logged(i, settled.logs)
       /\ fetched' = [fetched EXCEPT ![i] =
                        [threw |-> settled.threw, error |-> settled.error,
                         pools |-> settled.pools]]
  /\ pc' = [pc EXCEPT ![i] = "awaitData"]
  /\ response' = [response EXCEPT ![i] = NoResponse]
  /\ UNCHANGED << chainId, apiKey, url, lastTimestamp, allTags, isMore, outcome,
                  received, priorDone, requests, network, script, source, input,
                  output >>

\* await fetchData(url, lastTimestamp) of call i completes and returnTags runs
\* on: the catch block after a throw (lines 238-246), else the rest of the
\* loop body up to the next await or to the return (lines 228-237, 248, 126).
DataSettles(i) ==
  /\ pc[i] = "awaitData"
  /\ IF fetched[i].threw
     THEN /\ Fail(i, fetched[i].error)
          /\ UNCHANGED << lastTimestamp, allTags, isMore, requests >>
     ELSE \E pools \in {fetched[i].pools} :
          \E transformed \in {transformPoolsToTags(chainId[i], pools)} :
          \E tags \in {PushAll(allTags[TagsBinding(i)], transformed.tags)} :
          \E more \in {MorePages(pools)} :
          \E ts \in {IF more THEN NextTimestamp(pools) ELSE lastTimestamp[i]} :
            /\ allTags' = [allTags EXCEPT ![TagsBinding(i)] = tags]
            /\ console' = console \o Logged(i, transformed.logs)
            /\ isMore' = [isMore EXCEPT ![i] = more]
            /\ lastTimestamp' = [lastTimestamp EXCEPT ![i] = ts]
            /\ IF more
               THEN /\ pc' = [pc EXCEPT ![i] = "awaitFetch"]
                    /\ requests' = Append(requests, Request(i, url[i], ts))
                    /\ network' = AfterAwait(network, i)
                                    \cup {Request(i, url[i], ts)}
                    /\ UNCHANGED outcome
               ELSE /\ pc' = [pc EXCEPT ![i] = "done"]
                    /\ outcome' = [outcome EXCEPT ![i] = Returned(tags)]
                    /\ network' = AfterAwait(network, i)
                    /\ UNCHANGED requests
  /\ fetched' = [fetched EXCEPT ![i] = NoFetched]
  /\ UNCHANGED << chainId, apiKey, url, response, received, priorDone, script,
                  source, input, output >>

(***************************************************************************)
(* The data source answering.                                              *)
(***************************************************************************)
\* A mocked source gives every caller the same answer to its n-th call; the
\* answer is drawn from answers[n] the first time an n-th call is answered.
MockSettles(i, answers) ==
  /\ pc[i] = "awaitFetch"
  /\ LET n == Len(received[i]) + 1
     IN  IF n <= Len(script)
         THEN FetchSettles(i, script[n]) /\ UNCHANGED script
         ELSE \E r \in answers[n] :
                FetchSettles(i, r) /\ script' = Append(script, r)

\* The request of call i that is outstanding.
Outstanding(i) == CHOOSE m \in network : m.by = i

\* The ways a request to an honest source may fail: a non-success status, an
\* error list, a transport error.
HonestFailures ==
  {r \in FailureResponses :
     ~r.ok \/ (r.hasErrors /\ ~r.hasData) \/ r.fetchThrows = "error"}

\* An honest source answers the query of the request, or the request fails.
\* It answers MaxFetches requests of a call, as many as reading its pools
\* takes.
HonestSettles(i) ==
  /\ pc[i] = "awaitFetch"
  /\ Len(received[i]) < MaxFetches
  /\ \E r \in {HonestAnswer(source, Outstanding(i).lastTimestamp)}
                \cup HonestFailures :
       FetchSettles(i, r)
  /\ UNCHANGED script

(***************************************************************************)
(* Specifications.                                                         *)
(***************************************************************************)
\* One call against a mocked source.
Next ==
  \/ \E c \in ChainIds : Start(1, c, ApiKeyReserved)
  \/ MockSettles(1, [n \in 1..MaxFetches |-> MockAnswers(n)])
  \/ JsonSettles(1)
  \/ DataSettles(1)

Spec == Init /\ [][Next]_vars

\* Two calls side by side against one mocked source, in every interleaving.
PairChainIds(i) == IF i = 1 THEN {KeyEthereum} ELSE {KeyEthereum, KeyBase}

PairApiKeys(i) == IF i = 1 THEN {ApiKeyPlain} ELSE {ApiKeyPlain, ApiKeyReserved}

NextPair ==
  \/ \E i \in Invocations :
       \E c \in PairChainIds(i), k \in PairApiKeys(i) : Start(i, c, k)
  \/ \E i \in Invocations : MockSettles(i, [n \in 1..MaxFetches |-> PairAnswers(n)])
  \/ \E i \in Invocations : JsonSettles(i)
  \/ \E i \in Invocations : DataSettles(i)

SpecPair == Init /\ [][NextPair]_vars

\* One call against a source that honours the query.  The numbers of pools are
\* those around a page boundary, up to what MaxFetches requests can read.
SourceCounts ==
  {0, 1, PageSize - 1, PageSize, PageSize + 1,
   (MaxFetches - 1) * PageSize, (MaxFetches - 1) * PageSize + 1}

Sources == [count : SourceCounts, fill : {"mixed", "valid"}, stamps : {"asc", "pairs"}]

InitHonest == InitCalls /\ source \in Sources

NextHonest ==
  \/ \E c \in {KeyEthereum, ChainUnknown} : Start(1, c, ApiKeyPlain)
  \/ HonestSettles(1)
  \/ JsonSettles(1)
  \/ DataSettles(1)

\* Every request is answered, and a settled promise resumes its awaiter.
SpecHonest ==
  /\ InitHonest
  /\ [][NextHonest]_vars
  /\ WF_vars(HonestSettles(1))
  /\ WF_vars(JsonSettles(1))
  /\ WF_vars(DataSettles(1))

\* The Validator called on its own with one text.  The texts are all those of
\* at most MaxTextLen characters over '<', '>', three kinds of whitespace (the
\* space, TAB, FF) and a letter.
Alphabet == {"<", ">", " ", "\t", "\f", "a"}

Texts == UNION { [1..n -> Alphabet] : n \in 0..MaxTextLen }

InitValidator == Idle /\ source = NoSource /\ input \in Texts /\ output = NoOutput

\* isEmptyOrInvalid(input) returns.
Validate ==
  /\ output = NoOutput
  /\ output' = << isEmptyOrInvalid(input) >>
  /\ UNCHANGED << pc, chainId, apiKey, url, lastTimestamp, allTags, isMore,
                  response, fetched, outcome, received, priorDone, requests,
                  network, console, script, source, input >>

NextValidator == Validate

SpecValidator == InitValidator /\ [][NextValidator]_vars

\* The Record Transformer called on its own with a page of one pool whose
\* symbols have every length up to MaxSymbolLen (none, for an empty symbol).
SymbolText(n) == [j \in 1..n |-> Digits[(j % 10) + 1]]

SymbolPool(a, b) ==
  [id |-> TxtHexPrefix \o NumberToString(a * 100 + b),
   createdAtTimestamp |-> 1,
   token0 |-> [id |-> TxtTokenPrefix \o <<"0">>, name |-> TxtUsdCoin,
               symbol |-> SymbolText(a)],
   token1 |-> [id |-> TxtTokenPrefix \o <<"1">>, name |-> TxtWrappedEther,
               symbol |-> SymbolText(b)]]

InitTransformer ==
  /\ Idle /\ source = NoSource /\ output = NoOutput
  /\ \E a, b \in 0..MaxSymbolLen : input = << SymbolPool(a, b) >>

\* The caller of a helper function called on its own, which is no call of
\* returnTags.
NoCall == 0

\* transformPoolsToTags(chainId, input) makes its console.log call, if it
\* rejected a record, and returns.
Transform ==
  /\ output = NoOutput
  /\ \E transformed \in {transformPoolsToTags(KeyEthereum, input)} :
       /\ output' = << transformed >>
       /\ console' = console \o Logged(NoCall, transformed.logs)
  /\ UNCHANGED << pc, chainId, apiKey, url, lastTimestamp, allTags, isMore,
                  response, fetched, outcome, received, priorDone, requests,
                  network, script, source, input >>

NextTransformer == Transform

SpecTransformer == InitTransformer /\ [][NextTransformer]_vars

\* One call against a source that does not honour the query: whatever the
\* cursor, it answers with its first PageSize pools, which all carry one
\* timestamp.
\* The timestamps of a source whose pages never take the cursor further.
StuckStamps == {"zero", "same"}

StuckSources == [count : {PageSize}, fill : Fills, stamps : StuckStamps]

StuckAnswer(s) == PageResponse(PageSize, s.fill, s.stamps, 1)

InitStuck == InitCalls /\ source \in StuckSources

StuckChainIds == {KeyEthereum, KeyOptimism, KeyBase, KeyArbitrum}

\* The stuck source answers the first MaxStuckFetches requests of a call.
StuckSettles(i) ==
  /\ pc[i] = "awaitFetch"
  /\ Len(received[i]) < MaxStuckFetches
  /\ FetchSettles(i, StuckAnswer(source))
  /\ UNCHANGED script

NextStuck ==
  \/ \E c \in StuckChainIds : Start(1, c, ApiKeyPlain)
  \/ StuckSettles(1)
  \/ JsonSettles(1)
  \/ DataSettles(1)

SpecStuck ==
  /\ InitStuck
  /\ [][NextStuck]_vars
  /\ WF_vars(StuckSettles(1))
  /\ WF_vars(JsonSettles(1))
  /\ WF_vars(DataSettles(1))

(***************************************************************************)
(* returnTags run alone, as one function of its arguments and of the       *)
(* answers it receives: the cursors it sends and how it ends.              *)
(***************************************************************************)
RECURSIVE LoopAlone(_, _, _, _, _, _)

\* The loop body after fetchData has returned its pools (lines 229-237, 248).
BodyAlone(c, u, answers, n, tags, cursors, pools) ==
  IF MorePages(pools)
  THEN LoopAlone(c, u, answers, n + 1,
                 PushAll(tags, transformPoolsToTags(c, pools).tags),
                 Append(cursors, NextTimestamp(pools)))
  ELSE [cursors |-> cursors,
        outcome |-> Returned(PushAll(tags, transformPoolsToTags(c, pools).tags))]

\* The n-th turn of the while loop and the ones after it.
LoopAlone(c, u, answers, n, tags, cursors) ==
  IF n > Len(answers)
  THEN [cursors |-> cursors, outcome |-> Pending]
  ELSE IF fetchSettled(u, answers[n]).threw
  THEN [cursors |-> cursors,
        outcome |-> Thrown(catchError(fetchSettled(u, answers[n]).error).message)]
  ELSE IF jsonSettled(u, answers[n]).threw
  THEN [cursors |-> cursors,
        outcome |-> Thrown(catchError(jsonSettled(u, answers[n]).error).message)]
  ELSE CHOOSE ended \in { BodyAlone(c, u, answers, n, tags, cursors, pools) :
                            pools \in {jsonSettled(u, answers[n]).pools} } : TRUE

returnTagsAlone(c, k, answers) ==
  LET prepared == prepareUrl(c, k)
  IN  IF prepared.threw
      THEN [cursors |-> <<>>, outcome |-> Thrown(prepared.message)]
      ELSE LoopAlone(c, prepared.url, answers, 1, <<>>, <<InitialTimestamp>>)

(***************************************************************************)
(* Vocabulary of the properties.                                           *)
(***************************************************************************)
\* The answer is a page of records: the fetch succeeds.
Succeeds(r) ==
  /\ r.fetchThrows = "none" /\ r.ok /\ ~r.jsonThrows
  /\ ~r.hasErrors /\ r.hasData /\ r.hasPools

\* Call i got past the URL Resolver.
Resolved(i) == pc[i] # "idle" /\ url[i] # NoUrl

\* Where a call is while fetchData or the loop body still has to handle the
\* last answer received.
Handling == {"awaitJson", "awaitData"}

\* The n-th answer call i received has been handled to the end.
Handled(i, n) == n <= Len(received[i]) /\ (n < Len(received[i]) \/ pc[i] \notin Handling)

\* The last record of a page.
LastPool(page) == Pool(page.fill, page.stamps, page.first + page.len - 1)

\* A record with an unacceptable text in one of its four fields.
AnyFieldInvalid(pool) ==
  \E text \in {pool.token0.name, pool.token0.symbol,
               pool.token1.name, pool.token1.symbol} : isEmptyOrInvalid(text)

\* The records of the pages among the first n answers to call i, in order.
FetchedPools(i, n) ==
  Flatten([m \in 1..n |-> IF Succeeds(received[i][m])
                          THEN PoolsOf(received[i][m].page) ELSE <<>>], 1, n)

\* The number of answers call i has handled to the end.
HandledCount(i) ==
  IF pc[i] \in Handling THEN Len(received[i]) - 1 ELSE Len(received[i])

\* The Contract Address of the tag of a pool.
AddressOf(c, pool) == LitEip155 \o c \o LitColon \o pool.id

\* C1: the first fetch carries cursor 0; once a page has been handled, a page
\* of exactly PageSize records leaves the call fetching, with the next request
\* carrying the createdAtTimestamp of the page's last record, and a page of
\* any other length ends the call in "done" with no request after it; so a
\* finished call has sent one request more than it received full pages.
C1_PageLengthDrivesPagination ==
  \A i \in Invocations :
    Resolved(i) =>
      \A cursors \in {CursorsOf(i)} :
        /\ Len(cursors) >= 1
        /\ cursors[1] = 0
        /\ \A n \in 1..Len(received[i]) :
             (Succeeds(received[i][n]) /\ Handled(i, n)) =>
               IF received[i][n].page.len = PageSize
               THEN /\ Len(cursors) >= n + 1
                    /\ cursors[n + 1] = LastPool(received[i][n].page).createdAtTimestamp
                    /\ n = Len(received[i]) =>
                         (pc[i] = "awaitFetch" /\ Len(cursors) = n + 1)
               ELSE /\ pc[i] = "done"
                    /\ n = Len(received[i])
                    /\ Len(cursors) = n
        /\ pc[i] = "done" =>
             Len(cursors) = 1 + Cardinality({n \in 1..Len(received[i]) :
                                              IsFullPage(received[i][n])})

\* One full page (last timestamp 500) and then a short page of 3 records: two
\* requests, the second with cursor 500.
C1_Witness ==
  /\ pc[1] = "done"
  /\ CursorsOf(1) = <<0, 500>>
  /\ received[1][2].page.len = 3

\* C2: once a fetch of a call has failed, the call has ended in "failed": its
\* promise is rejected and carries no tags, whatever allTags holds, the failing
\* request is the last one the call sent, and none is outstanding.
C2_FailureEndsTheCall ==
  \A i \in Invocations :
    \A n \in 1..Len(received[i]) :
      (~Succeeds(received[i][n]) /\ Handled(i, n)) =>
        /\ pc[i] = "failed"
        /\ outcome[i].kind = "thrown"
        /\ outcome[i].tags = <<>>
        /\ n = Len(received[i])
        /\ Len(CursorsOf(i)) = n
        /\ ~\E m \in network : m.by = i

\* A call that fails on its second fetch, after a page that yielded tags.
C2_Witness ==
  /\ pc[1] = "failed"
  /\ Len(received[1]) = 2
  /\ Len(allTags[1]) > 0
  /\ outcome[1] = Thrown(LitFailedFetching \o LitErrorName \o LitColonSpace
                          \o LitNoPoolsData)

\* C3: the result of a call that ends in "done" has one tag per accepted record
\* of the fetched pages, in the order the source returned the records: as many
\* tags as records fetched minus records rejected, the k-th tag carrying the
\* Contract Address eip155:<chainId>:<id> of the k-th accepted record.
C3_ResultIsTheAcceptedRecordsInOrder ==
  \A i \in Invocations :
    pc[i] = "done" =>
      \A pools \in {FetchedPools(i, Len(received[i]))} :
      \A accepted \in {SelectSeq(pools, LAMBDA p : ~AnyFieldInvalid(p))} :
        /\ outcome[i].kind = "returned"
        /\ Len(outcome[i].tags) =
             Len(pools) - Cardinality({k \in 1..Len(pools) : AnyFieldInvalid(pools[k])})
        /\ Len(outcome[i].tags) = Len(accepted)
        /\ \A k \in 1..Len(accepted) :
             outcome[i].tags[k].ContractAddress = AddressOf(chainId[i], accepted[k])

\* A result built from two pages that both hold accepted and rejected records.
C3_Witness ==
  /\ pc[1] = "done"
  /\ Len(received[1]) = 2
  /\ received[1][1].page.fill = "mixed"
  /\ received[1][2].page = [len |-> 3, fill |-> "mixed", stamps |-> "asc",
                            first |-> PageSize + 1]
  /\ Len(outcome[1].tags) > 2
  /\ Len(outcome[1].tags) < PageSize

\* C4: a record is dropped exactly if one of its four token texts is invalid:
\* the tags accumulated are those of the records handled so far that have four
\* valid texts.  Dropping records never fails the call: a call that received
\* only pages has not failed.  And the length of the raw page decides: after a
\* page of PageSize records whose last record is rejected, the next request
\* carries that record's createdAtTimestamp.
C4_RejectedRecordsAreDroppedOnly ==
  \A i \in Invocations :
    Resolved(i) =>
      /\ \A pools \in {FetchedPools(i, HandledCount(i))} :
           {allTags[i][k].ContractAddress : k \in 1..Len(allTags[i])}
             = {AddressOf(chainId[i], pools[k]) :
                  k \in {m \in 1..Len(pools) : ~AnyFieldInvalid(pools[m])}}
      /\ (\A n \in 1..Len(received[i]) : Succeeds(received[i][n])) => pc[i] # "failed"
      /\ \A n \in 1..HandledCount(i) :
           \A r \in {received[i][n]} :
             (Succeeds(r) /\ r.page.len = PageSize /\ AnyFieldInvalid(LastPool(r.page))) =>
               /\ Len(CursorsOf(i)) >= n + 1
               /\ CursorsOf(i)[n + 1] = LastPool(r.page).createdAtTimestamp

\* A full page of rejected records only: nothing accumulated, and the second
\* request sent with the timestamp of the (rejected) last record.
C4_Witness ==
  /\ pc[1] = "awaitFetch"
  /\ received[1] = << PageResponse(PageSize, "rejected", "asc", 1) >>
  /\ allTags[1] = <<>>
  /\ CursorsOf(1) = <<0, PageSize>>

\* The identifiers of the endpoint table.
SupportedIds == {SUBGRAPH_URLS[k].key : k \in 1..Len(SUBGRAPH_URLS)}

\* The texts between the separators of a text.
RECURSIVE Split(_, _)
Split(text, sep) ==
  LET hits == {p \in 1..(Len(text) - Len(sep) + 1) :
                 SubSeq(text, p, p + Len(sep) - 1) = sep}
  IN  IF hits = {} THEN {text}
      ELSE LET p == CHOOSE h \in hits : \A g \in hits : h <= g
           IN  {SubSeq(text, 1, p - 1)}
                 \cup Split(SubSeq(text, p + Len(sep), Len(text)), sep)

\* C5: a call whose network identifier is no key of the endpoint table has
\* failed without sending any request or receiving any answer, and the message
\* of its error names the identifier and lists exactly the keys of the table.
C5_UnsupportedNetworkFailsBeforeAnyFetch ==
  \A i \in Invocations :
    (pc[i] # "idle" /\ chainId[i] \notin SupportedIds) =>
      /\ pc[i] = "failed"
      /\ outcome[i].kind = "thrown"
      /\ \A m \in 1..Len(requests) : requests[m].by # i
      /\ received[i] = <<>>
      /\ \A head \in {LitUnsupported \o chainId[i] \o LitOnlyAccepted} :
         \A message \in {outcome[i].message} :
           /\ Len(message) > Len(head)
           /\ SubSeq(message, 1, Len(head)) = head
           /\ Split(SubSeq(message, Len(head) + 1, Len(message)), LitCommaSpace)
                = SupportedIds

\* A call with an identifier the table object inherits but does not hold.
C5_Witness ==
  /\ pc[1] = "failed"
  /\ chainId[1] = ChainInherited
  /\ requests = <<>>
  /\ outcome[1].kind = "thrown"

\* C8: a call has at most one request outstanding, and has one exactly while it
\* awaits; the outstanding request is the last one it sent; it has sent at most
\* one request more than it has handled answers; and when it awaits the answer
\* to request n+1, the tags of the n pages before are already accumulated.
C8_OneRequestAtATime ==
  \A i \in Invocations :
    \A mine \in {{m \in network : m.by = i}} :
    \A cursors \in {CursorsOf(i)} :
      /\ Cardinality(mine) <= 1
      /\ Cardinality(mine) = 1 <=> pc[i] \in {"awaitFetch", "awaitJson", "awaitData"}
      /\ \A m \in mine : m.lastTimestamp = cursors[Len(cursors)]
      /\ Len(cursors) <= HandledCount(i) + 1
      /\ pc[i] = "awaitFetch" =>
           /\ Len(cursors) = Len(received[i]) + 1
           /\ \A pools \in {FetchedPools(i, Len(received[i]))} :
                Len(allTags[i]) = Cardinality({k \in 1..Len(pools) : ~AnyFieldInvalid(pools[k])})

\* The second request is outstanding and the tags of the first page are there.
C8_Witness ==
  /\ pc[1] = "awaitFetch"
  /\ Len(CursorsOf(1)) = 2
  /\ Cardinality(network) = 1
  /\ Len(allTags[1]) = PageSize

\* C6: against a source that holds finitely many pools and honours the query
\* (records later than the cursor, ascending, at most PageSize), with every
\* request answered, every call that was started ends in "done" or "failed".
C6_EveryCallEnds ==
  \A i \in Invocations : (pc[i] # "idle") ~> (pc[i] \in Terminal)

\* A source of PageSize + 1 pools read to its end: a full page, then a page
\* that is not full, and the call is done.
C6_Witness ==
  /\ source.count = PageSize + 1
  /\ source.stamps = "asc"
  /\ pc[1] = "done"
  /\ CursorsOf(1) = <<0, PageSize>>
  /\ received[1][2].page.len = 1

\* The console calls made by call i, in order.
LinesOf(i) ==
  LET mine == SelectSeq(console, LAMBDA l : l.by = i)
  IN  [n \in 1..Len(mine) |-> mine[n].line]

\* C7: two calls that overlap in any way do not disturb each other: a call
\* that has ended has sent the cursors and settled the way returnTags does when
\* it runs alone with the same arguments against the same answers.
C7_OverlappingCallsDoNotInterfere ==
  \A i \in Invocations :
    pc[i] \in Terminal =>
      \A alone \in {returnTagsAlone(chainId[i], apiKey[i], received[i])} :
        /\ CursorsOf(i) = alone.cursors
        /\ outcome[i] = alone.outcome

\* Both calls are done after their requests alternated at the source: each
\* was suspended at its fetch while the other ran.
C7_Witness ==
  /\ pc[1] = "done" /\ pc[2] = "done"
  /\ chainId[2] = KeyBase
  /\ [m \in 1..Len(requests) |-> requests[m].by] = <<1, 2, 1, 2>>
  /\ Len(outcome[1].tags) > 0

\* C9: the credential shows nowhere: two ended calls for the same network that
\* got the same answers and differ in their apiKey have made the same console
\* calls and settled alike (same tags, same error message).
C9_CredentialDoesNotShow ==
  \A i, j \in Invocations :
    (/\ pc[i] \in Terminal /\ pc[j] \in Terminal
     /\ chainId[i] = chainId[j]
     /\ received[i] = received[j]
     /\ apiKey[i] # apiKey[j]) =>
      /\ LinesOf(i) = LinesOf(j)
      /\ outcome[i] = outcome[j]

\* C10: running returnTags again gives the same again: a call started after
\* another one had ended, with the same network identifier and the same
\* answers, sends the same cursors and settles with the same ordered tags.
C10_RerunGivesTheSame ==
  \A i, j \in Invocations :
    (/\ i \in priorDone[j]
     /\ pc[j] \in Terminal
     /\ chainId[i] = chainId[j]
     /\ received[i] = received[j]) =>
      /\ CursorsOf(j) = CursorsOf(i)
      /\ outcome[j].kind = outcome[i].kind
      /\ outcome[j].tags = outcome[i].tags

\* The second call ran after the first had returned its tags, and is done too.
C10_Witness ==
  /\ priorDone[2] = {1}
  /\ pc[1] = "done" /\ pc[2] = "done"
  /\ chainId[1] = chainId[2]
  /\ Len(CursorsOf(2)) = 2
  /\ Len(outcome[1].tags) > 0

\* The text holds nothing but whitespace: it is empty once trimmed.
OnlyWhitespace(text) == \A p \in 1..Len(text) : text[p] \in Whitespace

\* The text holds a '<' and, somewhere after it, a '>'.
TagLike(text) ==
  \E p, q \in 1..Len(text) : p < q /\ text[p] = "<" /\ text[q] = ">"

\* C12: the Validator reports a text invalid exactly when the text is empty
\* after trimming whitespace or holds a '<' followed anywhere later by a '>';
\* every other text is valid.
C12_InvalidIffEmptyOrTagLike ==
  output # NoOutput =>
    (output[1] <=> (OnlyWhitespace(input) \/ TagLike(input)))

\* The Validator has reported the empty tag "<>" inside a text invalid.
C12_Witness ==
  /\ input = <<"a", "<", ">">>
  /\ output = << TRUE >>

\* The Validator has reported a text valid whose '>' precedes its only '<'.
C12_WitnessValid ==
  /\ input = <<">", "a", "<">>
  /\ output = << FALSE >>

\* The text symbol0/symbol1 of a pool, before any truncation.
SymbolsOf(pool) == pool.token0.symbol \o <<"/">> \o pool.token1.symbol

\* The part of a Public Name Tag before its last five characters.
SegmentOf(tag) == SubSeq(tag.PublicNameTag, 1, Len(tag.PublicNameTag) - 5)

\* C11: for an accepted record the symbol segment of the Public Name Tag is
\* symbol0/symbol1 unchanged when that text has at most 45 characters, and
\* otherwise its first 42 characters followed by "..." (45 characters); " Pool"
\* comes after it, and the whole Public Name Tag has at most 50 characters.
C11_SymbolSegmentIsTruncatedTo45 ==
  (output # NoOutput /\ ~AnyFieldInvalid(input[1])) =>
    /\ Len(output[1].tags) = 1
    /\ \A tag \in {output[1].tags[1]} :
       \A text \in {SymbolsOf(input[1])} :
         /\ Len(tag.PublicNameTag) >= 5
         /\ Len(tag.PublicNameTag) <= 50
         /\ SubSeq(tag.PublicNameTag, Len(tag.PublicNameTag) - 4,
                   Len(tag.PublicNameTag)) = <<" ", "P", "o", "o", "l">>
         /\ Len(text) <= 45 => SegmentOf(tag) = text
         /\ Len(text) > 45 =>
              /\ Len(SegmentOf(tag)) = 45
              /\ SubSeq(SegmentOf(tag), 1, 42) = SubSeq(text, 1, 42)
              /\ SubSeq(SegmentOf(tag), 43, 45) = <<".", ".", ".">>

\* A pool whose symbols make a text of 46 characters has been transformed: its
\* tag holds the first 42 of them and the ellipsis.
C11_Witness ==
  /\ output # NoOutput
  /\ Len(input[1].token0.symbol) = 25 /\ Len(input[1].token1.symbol) = 20
  /\ Len(output[1].tags) = 1
  /\ Len(output[1].tags[1].PublicNameTag) = 50
  /\ output[1].tags[1].PublicNameTag[43] = "."

\* The number of full pages among the answers call i has handled to the end.
FullPagesHandled(i) ==
  Cardinality({n \in 1..HandledCount(i) : IsFullPage(received[i][n])})

\* C13: against a source that returns ascending pages of records newer than
\* the request's cursor, the cursors of the successive fetches of a call grow
\* strictly, starting at 0; the cursor moves only after a full page (one fetch
\* more per full page received, the variable always holding the cursor of the
\* last fetch), so the final short page leaves it as it was.
C13_CursorGrowsStrictly ==
  \A cursors \in {CursorsOf(1)} :
    /\ Len(cursors) > 0 =>
         /\ cursors[1] = 0
         /\ lastTimestamp[1] = cursors[Len(cursors)]
         /\ Len(cursors) = 1 + FullPagesHandled(1)
    /\ \A m, n \in 1..Len(cursors) : m < n => cursors[m] < cursors[n]

\* A call is done after a full page and a short one from a source whose pools
\* share timestamps: two fetches, the second with a greater cursor, which the
\* short page has left unchanged.
C13_Witness ==
  /\ pc[1] = "done"
  /\ source.stamps = "pairs"
  /\ Len(CursorsOf(1)) = 2
  /\ CursorsOf(1)[2] > 0
  /\ lastTimestamp[1] = CursorsOf(1)[2]
  /\ ~IsFullPage(received[1][2])

\* The Contract Addresses of a sequence of tags.
AddressesOf(tags) == { tags[j].ContractAddress : j \in 1..Len(tags) }

\* C14: against a source that honours the query (records newer than the
\* cursor only, in ascending order of createdAtTimestamp) no pool appears
\* twice in the accumulator, in any reachable state: the tags have as many
\* different Contract Addresses (network and pool id) as there are tags.
C14_NoPoolTwice ==
  \A tags \in {allTags[1]} : Cardinality(AddressesOf(tags)) = Len(tags)

\* The call is done with the tags of two pages of a source holding one pool
\* more than a page, all of them acceptable.
C14_Witness ==
  /\ pc[1] = "done"
  /\ source.count = PageSize + 1 /\ source.fill = "valid"
  /\ Len(received[1]) = 2
  /\ Len(outcome[1].tags) = PageSize + 1

\* The pools a source holds, in its order.
HeldPools(s) == [k \in 1..s.count |-> Pool(s.fill, s.stamps, k)]

\* C15: against a source that honours the query, a call that ends without a
\* failed fetch returns a complete result: every pool the source holds whose
\* four token fields are valid has a tag in the result, however the
\* createdAtTimestamp values are spread over the pools.
C15_ResultIsComplete ==
  pc[1] = "done" =>
    \A addresses \in {AddressesOf(outcome[1].tags)} :
      \A k \in 1..source.count :
        \A pool \in {HeldPools(source)[k]} :
          ~AnyFieldInvalid(pool) => AddressOf(chainId[1], pool) \in addresses

\* A token with an unacceptable name or symbol.
TokenInvalid(token) == isEmptyOrInvalid(token.name) \/ isEmptyOrInvalid(token.symbol)

\* The line that names a pool and one of its sides as rejected.
LineNaming(pool, side, token) ==
  LitContract \o pool.id \o <<" ">>
    \o <<"r","e","j","e","c","t","e","d"," ","d","u","e"," ","t","o"," ">>
    \o <<"i","n","v","a","l","i","d"," ","t","o","k","e","n"," ">>
    \o <<"s","y","m","b","o","l","/","n","a","m","e"," ","-"," ">>
    \o <<"T","o","k","e","n", side, ":", " ">> \o token.name
    \o LitSymbol \o token.symbol

\* One line per offending side of a pool: token0 first, then token1.
LinesNaming(pool) ==
  (IF TokenInvalid(pool.token0)
   THEN << LineNaming(pool, "0", pool.token0) >> ELSE <<>>)
  \o (IF TokenInvalid(pool.token1)
      THEN << LineNaming(pool, "1", pool.token1) >> ELSE <<>>)

\* The n-th answer to call 1 is a page with a rejected record, handled to the
\* end.
PageWithRejects(n) ==
  /\ n <= HandledCount(1)
  /\ Succeeds(received[1][n])
  /\ \E k \in 1..received[1][n].page.len :
       AnyFieldInvalid(Pool(received[1][n].page.fill, received[1][n].page.stamps,
                            received[1][n].page.first + k - 1))

\* The console.log calls of call 1, in order.
RejectionLogs == SelectSeq(LinesOf(1), LAMBDA l : l.level = "log")

\* The console.log call made for the n-th answer, a page with rejects.
RejectionLogOf(n) ==
  RejectionLogs[Cardinality({m \in 1..n : PageWithRejects(m)})]

\* The number of rejected records of a page.
RejectedCount(pools) ==
  Cardinality({k \in 1..Len(pools) : AnyFieldInvalid(pools[k])})

\* C16 as stated: exactly one log line for each rejected record of a page.
C16_OneLinePerRejectedRecord ==
  /\ Len(RejectionLogs)
       = Cardinality({n \in 1..HandledCount(1) : PageWithRejects(n)})
  /\ \A n \in 1..HandledCount(1) :
       PageWithRejects(n) =>
         \A pools \in {PoolsOf(received[1][n].page)} :
           Len(RejectionLogOf(n).list) = RejectedCount(pools)

\* C16 as amended: for each rejected record the Record Transformer emits one
\* line per offending side (a Token0 line, a Token1 line, or both, in this
\* order), each naming the pool id and that token's name and symbol; the lines
\* of a page are printed, in record order, by one console.log call, and a page
\* without rejected records makes no such call.
C16_OneLinePerOffendingSide ==
  /\ Len(RejectionLogs)
       = Cardinality({n \in 1..HandledCount(1) : PageWithRejects(n)})
  /\ \A n \in 1..HandledCount(1) :
       PageWithRejects(n) =>
         \A pools \in {PoolsOf(received[1][n].page)} :
           RejectionLogOf(n).list
             = Flatten([k \in 1..Len(pools) |-> LinesNaming(pools[k])],
                       1, Len(pools))

\* A full page with records rejected on both sides has been handled and a
\* three-record page after it whose records are rejected on one side: two
\* console.log calls, the first with more lines than the page has rejected
\* records, the second with three lines.
C16_Witness ==
  /\ pc[1] = "done"
  /\ Len(received[1]) = 2
  /\ PageWithRejects(1) /\ PageWithRejects(2)
  /\ Len(RejectionLogs) = 2
  /\ Len(RejectionLogs[1].list) > RejectedCount(PoolsOf(received[1][1].page))
  /\ received[1][2].page.len = 3
  /\ Len(RejectionLogs[2].list) = 3

\* The texts of the console.error calls of call 1, in order.
ErrorTexts ==
  LET errors == SelectSeq(LinesOf(1), LAMBDA l : l.level = "error")
  IN  [n \in 1..Len(errors) |-> errors[n].text]

\* What the catch block logs and throws for an error with this message.
LoggedCause(message) == LitAnErrorOccurred \o message

ThrownCause(message) == LitFailedFetching \o LitErrorName \o LitColonSpace \o message

\* The number of tags the pages before the last answer to call 1 have given.
TagsBeforeLast ==
  \A pools \in {FetchedPools(1, Len(received[1]) - 1)} :
    Len(allTags[1]) = Len(pools) - RejectedCount(pools)

\* C17: a response with an error list makes the fetch fail with the generic
\* GraphQL-errors condition after one console.error per error message, with
\* or without pools data in the response, and none of its records reaches the
\* accumulator; a non-success HTTP status is tested before the error list, and
\* the error list before missing pools data.
C17_ErrorListFailsTheFetch ==
  (HandledCount(1) > 0 /\ HandledCount(1) = Len(received[1])) =>
    \A r \in {received[1][Len(received[1])]} :
      (r.fetchThrows = "none" /\ ~Succeeds(r) /\ (r.ok => ~r.jsonThrows)) =>
        /\ pc[1] = "failed"
        /\ TagsBeforeLast
        /\ IF ~r.ok
           THEN \A cause \in {LitHttpError \o NumberToString(r.status)} :
                  /\ ErrorTexts = << LoggedCause(cause) >>
                  /\ outcome[1] = Thrown(ThrownCause(cause))
           ELSE IF r.hasErrors
           THEN /\ ErrorTexts
                     = [e \in 1..Len(r.errors) |-> LitGraphQLError \o r.errors[e]]
                         \o << LoggedCause(LitGraphQLErrorsOccurred) >>
                /\ outcome[1] = Thrown(ThrownCause(LitGraphQLErrorsOccurred))
           ELSE /\ ErrorTexts = << LoggedCause(LitNoPoolsData) >>
                /\ outcome[1] = Thrown(ThrownCause(LitNoPoolsData))

\* After a full page, a response with two errors and three pools has been
\* handled: three console.error calls and the call has failed.
C17_Witness ==
  /\ pc[1] = "failed"
  /\ Len(received[1]) = 2
  /\ received[1][2].ok /\ received[1][2].hasErrors /\ received[1][2].hasPools
  /\ Len(received[1][2].errors) = 2
  /\ received[1][2].page.len = 3
  /\ Len(ErrorTexts) = 3
  /\ Len(allTags[1]) > 0

\* The number of tags one page of the stuck source gives.
StuckPageTags == Len(transformPoolsToTags(chainId[1], PoolsOf(StuckAnswer(source).page)).tags)

\* C18: the loop has no iteration guard.  Against a source that keeps
\* answering with a page of exactly PageSize records whose last
\* createdAtTimestamp is not greater than the request's cursor, a call never
\* ends: it is always waiting for a fetch, with isMore true; each page handled
\* adds its tags to the accumulator and is followed by a new fetch whose
\* cursor is the timestamp of the page's last record, not greater than the
\* one before when that page did not exceed it; and the call sends a new
\* request after every answer the source gives.
C18_StuckSourceKeepsTheCallFetching ==
  /\ [](Resolved(1) =>
          /\ pc[1] \in {"awaitFetch", "awaitJson", "awaitData"}
          /\ isMore[1]
          /\ \A cursors \in {CursorsOf(1)} :
               /\ Len(cursors) = HandledCount(1) + 1
               /\ \A n \in 1..HandledCount(1) :
                    /\ cursors[n + 1] = LastPool(received[1][n].page).createdAtTimestamp
                    /\ LastPool(received[1][n].page).createdAtTimestamp <= cursors[n]
                         => cursors[n + 1] <= cursors[n]
          /\ Len(allTags[1]) = HandledCount(1) * StuckPageTags)
  /\ (Resolved(1) ~> (Len(CursorsOf(1)) = MaxStuckFetches + 1))

\* The third fetch has been sent with the cursor of the second, after two
\* pages of acceptable pools whose tags are all in the accumulator.
C18_Witness ==
  /\ pc[1] = "awaitFetch"
  /\ source.fill = "valid" /\ source.stamps = "same"
  /\ CursorsOf(1) = <<0, 7, 7>>
  /\ Len(allTags[1]) = 2 * PageSize
====
